---- MODULE Spec2Model ----
(***************************************************************************)
(* A model of the Config state manager (src/src/config.ts) and of the      *)
(* validators it is built on (src/src/types.ts).                           *)
(*                                                                         *)
(* JavaScript values are tagged records [k |-> tag, v |-> payload]; an     *)
(* object's payload is a function from its own keys to values.  A property *)
(* that is present with the value undefined ({a: undefined}) is distinct   *)
(* from an absent one ({}).  Objects are unordered here: where the code    *)
(* walks keys in insertion order the model walks them in KeyOrder.         *)
(* Messages are sequences of tokens; the message "undefined" is <<>>.      *)
(***************************************************************************)
EXTENDS Integers, Sequences, FiniteSets, TLC

\* ------------------------------------------------------------------ bounds
\* Numbers that callers and files may supply are 1..MaxNum.
MaxNum == 1
\* Arrays passed to fail have at most MaxLen elements.
MaxLen == 2

\* ------------------------------------------------------------------ values
Undef == [k |-> "undef", v |-> 0]
Num(n) == [k |-> "num", v |-> n]
Str(s) == [k |-> "str", v |-> s]
Obj(f) == [k |-> "obj", v |-> f]
Arr(elements) == [k |-> "arr", v |-> elements]
EmptyObj == Obj([x \in {} |-> Undef])

IsObj(value) == value.k = "obj"

\* Object.keys(object)
OwnKeys(obj) == DOMAIN obj.v

\* Object.hasOwn(object, key)
HasOwn(obj, key) == IsObj(obj) /\ key \in DOMAIN obj.v

\* object[key] on an object: undefined when the key is absent
Prop(obj, key) == IF HasOwn(obj, key) THEN obj.v[key] ELSE Undef

\* object[key] = value on an object
WithProp(obj, key, value) ==
    Obj([x \in OwnKeys(obj) \cup {key} |-> IF x = key THEN value ELSE obj.v[x]])

\* delete object[key] on an object whose properties are configurable
WithoutProp(obj, key) ==
    Obj([x \in OwnKeys(obj) \ {key} |-> obj.v[x]])

\* JavaScript truthiness of a value, as used by `||=` and `!this.data`
Truthy(value) ==
    CASE value.k = "undef" -> FALSE
      [] value.k = "num" -> value.v # 0
      [] value.k = "str" -> value.v # ""
      [] OTHER -> TRUE

\* The property names used by the validators and the callers.
Keys == {"testprop", "other"}
KeyOrder == <<"testprop", "other">>

\* ---------------------------------------------------------------- messages
undefined == <<>>
\* the literal 0 passed as `error` to check/isObjectLike: "compute it now"
Zero == <<"0">>

\* ------------------------------------------------------------- validators
NoType == [kind |-> "none"]
NoDynamic == [present |-> FALSE, validator |-> NoType, override |-> FALSE]

\* The pattern option of string and number: absent, a RegExp, given by the
\* values it matches, or a callback, given by the values for which it
\* returns undefined (for the others it returns the fragment).
NoPattern == [kind |-> "none", passes |-> {}]
RegExp(matches) == [kind |-> "regex", passes |-> matches]
Callback(passes) == [kind |-> "callback", passes |-> passes]

\* min and max of number default to -Infinity and Infinity
NegInfinity == [k |-> "-inf", v |-> 0]
Infinity == [k |-> "inf", v |-> 0]

\* a <= b for numbers and the infinities
Le(a, b) ==
    \/ a.k = "-inf"
    \/ b.k = "inf"
    \/ a.k = "num" /\ b.k = "num" /\ a.v <= b.v

\* number({optional, defaultVal, min, max, pattern})
numberWith(optional, defaultVal, min, max, pattern) ==
    [kind |-> "number", optional |-> optional, defaultVal |-> defaultVal,
     isObjectLike |-> FALSE, min |-> min, max |-> max, pattern |-> pattern]

\* number({optional, defaultVal})
number(optional, defaultVal) ==
    numberWith(optional, defaultVal, NegInfinity, Infinity, NoPattern)

\* string({optional, defaultVal, pattern})
stringWith(optional, defaultVal, pattern) ==
    [kind |-> "string", optional |-> optional, defaultVal |-> defaultVal,
     isObjectLike |-> FALSE, pattern |-> pattern]

\* string({optional, defaultVal})
string(optional, defaultVal) == stringWith(optional, defaultVal, NoPattern)

\* array({optional, defaultVal, elementType})
array(optional, defaultVal, elementType) ==
    [kind |-> "array", optional |-> optional, defaultVal |-> defaultVal,
     isObjectLike |-> FALSE, elementType |-> elementType]

object(optional, defaultVal, valueType) ==
    [kind |-> "object", optional |-> optional, defaultVal |-> defaultVal,
     isObjectLike |-> TRUE, valueType |-> valueType]

\* The struct's default is derived: each property key mapped to that
\* property validator's defaultVal.
TypeValidatorStruct(optional, properties, dynamicProperties) ==
    [kind |-> "struct", optional |-> optional,
     defaultVal |-> Obj([x \in DOMAIN properties |-> properties[x].defaultVal]),
     isObjectLike |-> TRUE, properties |-> properties,
     dynamicProperties |-> dynamicProperties]

struct(optional, properties, dynamicProperties) ==
    TypeValidatorStruct(optional, properties, dynamicProperties)

\* getType preferring the static validator whatever override says
GetTypeStaticFirst(type, obj, key) ==
    IF ~HasOwn(obj, key) THEN NoType
    ELSE LET dynamic == type.dynamicProperties
             static == IF key \in DOMAIN type.properties
                       THEN type.properties[key] ELSE NoType
         IN IF static # NoType THEN static ELSE dynamic.validator

\* TypeValidatorStruct.getType: the validator resolved for a key of object
GetType(type, obj, key) ==
    IF ~HasOwn(obj, key) THEN NoType
    ELSE LET dynamic == type.dynamicProperties
             static == IF key \in DOMAIN type.properties
                       THEN type.properties[key] ELSE NoType
         IN IF dynamic.override
            THEN (IF dynamic.validator # NoType THEN dynamic.validator ELSE static)
            ELSE (IF static # NoType THEN static ELSE dynamic.validator)

\* The keys of a set, in KeyOrder
RECURSIVE OrderedFrom(_, _)
OrderedFrom(keys, i) ==
    IF i > Len(KeyOrder) THEN <<>>
    ELSE (IF KeyOrder[i] \in keys THEN <<KeyOrder[i]>> ELSE <<>>)
         \o OrderedFrom(keys, i + 1)
Ordered(keys) == OrderedFrom(keys, 1)

RECURSIVE Flatten(_)
Flatten(list) == IF list = <<>> THEN <<>> ELSE Head(list) \o Flatten(Tail(list))

RECURSIVE Fail(_, _)
\* number().fail with bounds that exclude min and max themselves
FailNumberExclusive(type, value) ==
    IF value.k # "num" THEN <<"Should be a number.">>
    ELSE IF ~(Le(value, type.max) /\ Le(type.min, value))
            \/ value = type.max \/ value = type.min
    THEN <<"Should be a number.">>
    ELSE IF type.pattern.kind = "regex"
    THEN (IF value \notin type.pattern.passes
          THEN <<"Should satisfy the regex pattern.">> ELSE undefined)
    ELSE IF type.pattern.kind = "callback"
    THEN <<"Should be a specific number.">>
         \o (IF value \in type.pattern.passes THEN <<>> ELSE <<"fragment">>)
    ELSE undefined

\* number().fail without the optional wrapper
FailNumber(type, value) ==
    IF value.k # "num" THEN <<"Should be a number.">>
    ELSE IF ~(Le(value, type.max) /\ Le(type.min, value))
    THEN <<"Should be a number.">>
    ELSE IF type.pattern.kind = "regex"
    THEN (IF value \notin type.pattern.passes
          THEN <<"Should satisfy the regex pattern.">> ELSE undefined)
    ELSE IF type.pattern.kind = "callback"
    THEN <<"Should be a specific number.">>
         \o (IF value \in type.pattern.passes THEN <<>> ELSE <<"fragment">>)
    ELSE undefined

\* string().fail without the optional wrapper
FailString(type, value) ==
    IF value.k # "str" THEN <<"Should be a string.">>
    ELSE IF type.pattern.kind = "regex"
    THEN (IF value \notin type.pattern.passes
          THEN <<"Should satisfy the regex pattern.">> ELSE undefined)
    ELSE IF type.pattern.kind = "callback"
    THEN <<"Should be a specific string.">>
         \o (IF value \in type.pattern.passes
             THEN <<"undefined">> ELSE <<"fragment">>)
    ELSE undefined

\* The messages of the elements the elementType rejects, in element order
RECURSIVE MassageList(_, _)
MassageList(type, elements) ==
    IF elements = <<>> THEN <<>>
    ELSE (IF Fail(type.elementType, Head(elements)) # undefined
          THEN <<Fail(type.elementType, Head(elements))>> ELSE <<>>)
         \o MassageList(type, Tail(elements))

\* array().fail without the optional wrapper: the index of an entry is its
\* position in the list of messages left after the filter
FailArray(type, value) ==
    IF value.k # "arr" THEN <<"The value should be an array.">>
    ELSE LET massageList == MassageList(type, value.v)
             list == [i \in 1..Len(massageList) |->
                        <<"Element", ToString(i - 1)>> \o massageList[i]]
         IN IF Len(massageList) > 0
            THEN <<"The value should be a typed array. Found bad elements:">>
                 \o Flatten(list)
            ELSE undefined

\* object().fail without the optional wrapper
FailObject(type, value) ==
    IF ~IsObj(value) THEN <<"The value should be an object.">>
    ELSE LET keys == Ordered(OwnKeys(value))
             errorList == [i \in 1..Len(keys) |->
                 IF Fail(type.valueType, value.v[keys[i]]) # undefined
                 THEN <<"Invalid value type for the key", keys[i]>>
                 ELSE <<>>]
         IN IF Flatten(errorList) # <<>>
            THEN <<"The value should be an object:">> \o Flatten(errorList)
            ELSE undefined

\* struct().fail returning at the first key in error
FailStructFirstOnly(type, value) ==
    IF ~IsObj(value) THEN <<"The value should be a struct.">>
    ELSE LET keys == Ordered(OwnKeys(value))
             errorList == [i \in 1..Len(keys) |->
                 LET propertyType == GetType(type, value, keys[i])
                 IN IF propertyType = NoType
                    THEN <<"Unexpected key", keys[i]>>
                    ELSE IF Fail(propertyType, value.v[keys[i]]) # undefined
                    THEN <<"Bad value for the key", keys[i]>>
                         \o Fail(propertyType, value.v[keys[i]])
                    ELSE <<>>]
             inError == {i \in 1..Len(keys) : errorList[i] # <<>>}
         IN IF inError # {}
            THEN <<"The value should be a struct:">>
                 \o errorList[CHOOSE i \in inError : \A j \in inError : i <= j]
            ELSE undefined

\* struct().fail without the optional wrapper
FailStruct(type, value) ==
    IF ~IsObj(value) THEN <<"The value should be a struct.">>
    ELSE LET keys == Ordered(OwnKeys(value))
             errorList == [i \in 1..Len(keys) |->
                 LET propertyType == GetType(type, value, keys[i])
                 IN IF propertyType = NoType
                    THEN <<"Unexpected key", keys[i]>>
                    ELSE IF Fail(propertyType, value.v[keys[i]]) # undefined
                    THEN <<"Bad value for the key", keys[i]>>
                         \o Fail(propertyType, value.v[keys[i]])
                    ELSE <<>>]
         IN IF Flatten(errorList) # <<>>
            THEN <<"The value should be a struct:">> \o Flatten(errorList)
            ELSE undefined

\* TypeValidator.fail: undefined always passes an optional validator
Fail(type, value) ==
    IF value = Undef /\ type.optional THEN undefined
    ELSE CASE type.kind = "number" -> FailNumber(type, value)
           [] type.kind = "string" -> FailString(type, value)
           [] type.kind = "object" -> FailObject(type, value)
           [] type.kind = "array" -> FailArray(type, value)
           [] type.kind = "struct" -> FailStruct(type, value)

\* check comparing the error with undefined without computing it for 0
CheckErrorOnly(type, value, error) == error = undefined

\* TypeValidator.check
Check(type, value, error) ==
    IF error = Zero THEN Fail(type, value) = undefined ELSE error = undefined

\* ------------------------------------------------------------------ parser
\* Text is what a file holds: the encoding of a value, or malformed text.
NoFile == [k |-> "nofile", v |-> 0]
BadText == [k |-> "bad", v |-> 0]
Text(value) == [k |-> "json", v |-> value]

\* JSON.stringify leaves out the properties whose value is undefined.
RECURSIVE Jsonify(_)
Jsonify(value) ==
    IF ~IsObj(value) THEN value
    ELSE Obj([x \in {y \in OwnKeys(value) : value.v[y] # Undef} |-> Jsonify(value.v[x])])

\* Parser.stringify (JSON): JSON.stringify(undefined) is not a string
Stringify(value) == IF value = Undef THEN Undef ELSE Text(Jsonify(value))

\* The parsers a Config may be given: JSON, and one of another format.
\* Parser.parse does not throw on this text: it is of the parser's format
Parsers == {"json", "alt"}
ParsesWith(codec, text) == text.k = codec

\* Parser.parse (JSON)
Parse(text) == text.v

\* -------------------------------------------------------------- the Config
\* The validators a Config is constructed with.
TestProp(validator) == [x \in {"testprop"} |-> validator]

TypeOf(i) ==
    CASE i = 1 -> struct(FALSE, TestProp(number(TRUE, Undef)), NoDynamic)
      [] i = 2 -> struct(TRUE, TestProp(number(TRUE, Undef)), NoDynamic)
      [] i = 3 -> struct(FALSE, TestProp(number(FALSE, Undef)), NoDynamic)
      [] i = 4 -> struct(FALSE, TestProp(number(FALSE, Num(1))), NoDynamic)
      [] i = 5 -> object(FALSE, Undef, number(FALSE, Undef))
      [] i = 6 -> struct(FALSE, TestProp(number(TRUE, Undef)),
                         [present |-> TRUE, validator |-> string(FALSE, Undef),
                          override |-> FALSE])
      [] i = 7 -> number(FALSE, Num(1))
      [] i = 8 -> struct(FALSE, TestProp(number(TRUE, Undef)),
                         [present |-> TRUE, validator |-> string(FALSE, Undef),
                          override |-> TRUE])
      [] i = 9 -> struct(FALSE, TestProp(number(TRUE, Undef)),
                         [present |-> TRUE, validator |-> NoType,
                          override |-> TRUE])
      [] i = 10 -> array(FALSE, Undef, string(FALSE, Undef))
      [] i = 11 -> numberWith(FALSE, Undef, NegInfinity, Num(MaxNum), NoPattern)
      [] i = 12 -> numberWith(FALSE, Undef, Num(1), Infinity, NoPattern)
      [] i = 13 -> numberWith(FALSE, Undef, Num(1), Num(MaxNum), NoPattern)
      [] i = 14 -> stringWith(FALSE, Undef, Callback({Str("x")}))
      [] i = 15 -> numberWith(FALSE, Undef, NegInfinity, Infinity,
                              Callback({Num(1)}))
      [] i = 16 -> stringWith(FALSE, Undef, RegExp({Str("x")}))
\* the validators a Config is given
TypeIds == 1..7
\* the validators fail and check are called on
ValidatorIds == 1..16

\* What callers pass as values and what other programs leave in the file.
Numbers == {Num(n) : n \in 1..MaxNum}
SetValues == {Str("x"), EmptyObj} \cup Numbers
DataValues == {Undef, EmptyObj} \cup {Obj([x \in {"testprop"} |-> n]) : n \in Numbers}
FileTexts ==
    {BadText, Text(Str("x"))}
    \cup {Text(Obj([x \in {"testprop"} |-> n])) : n \in Numbers}
    \cup {Text(Obj([x \in {"other"} |-> n])) : n \in Numbers}
Modes == {"real", "current", "default"}
NoKey == "-"

VARIABLES
    ty,          \* Config.type, as an index of TypeOf
    defaultVal,  \* Config.type.defaultVal, the object the validator holds
    data,        \* Config.data
    alias,       \* Config.data is the very object Config.type.defaultVal is
    frozen,      \* the properties of the object Config.data is cannot be
                 \* written or deleted (Object.freeze)
    held,        \* what the caller holds of the last getData(): "none", a
                 \* "clone" of the data, or the "same" object
    parser,      \* Config.parser; type.parser is always the default, JSON
    file,        \* the file at Config.path
    op,          \* the last call made
    key,         \* its key argument
    val,         \* its value argument
    ret          \* what it returned or threw

vars == <<ty, defaultVal, data, alias, frozen, held, parser, file, op, key, val, ret>>

type == TypeOf(ty)

\* this.parser.parse does not throw on this text
Parses(text) == ParsesWith(parser, text)

Return(message) == [k |-> "return", v |-> message]
Throw(message) == [k |-> "throw", v |-> message]
Value(value) == [k |-> "value", v |-> value]
KeysResult(keys) == [k |-> "keys", v |-> keys]
Bool(b) == [k |-> "bool", v |-> b]

\* this.data = value, where fromDefault says value is type.defaultVal itself
Assign(value, fromDefault) ==
    /\ data' = value
    /\ alias' = (fromDefault /\ IsObj(value))
    /\ frozen' = FALSE
    /\ UNCHANGED defaultVal

\* a write to a property of the object this.data is: it is seen through
\* type.defaultVal too while both are the same object
Mutate(value) ==
    /\ data' = value
    /\ defaultVal' = IF alias THEN value ELSE defaultVal
    /\ UNCHANGED <<alias, frozen>>

\* Config.constructor
\* new Config({path, type}) for a type of ids, where the file at path is
\* absent or holds one of texts
Constructed(ids, texts) ==
    /\ ty \in ids
    /\ defaultVal = TypeOf(ty).defaultVal
    /\ data = defaultVal
    /\ alias = IsObj(defaultVal)
    /\ frozen = FALSE
    /\ held = "none"
    /\ file \in {NoFile} \cup texts
    /\ op = "new"
    /\ key = NoKey
    /\ val = Undef
    /\ ret = Return(undefined)

\* the parser option is left out: JSON
Init == Constructed(TypeIds, FileTexts) /\ parser = "json"

\* Config.setData: the caller passes type.defaultVal itself, or a value
\* of its own that the type accepts, which may be a frozen object
SetData ==
    /\ \/ Assign(defaultVal, TRUE)
       \/ \E value \in DataValues :
            /\ Fail(type, value) = undefined
            /\ Assign(value, FALSE)
       \/ \E value \in DataValues :
            /\ Fail(type, value) = undefined
            /\ IsObj(value) /\ OwnKeys(value) # {}
            /\ data' = value
            /\ alias' = FALSE
            /\ frozen' = TRUE
            /\ UNCHANGED defaultVal
    /\ op' = "setData"
    /\ key' = NoKey
    /\ val' = Undef
    /\ ret' = Return(undefined)
    /\ UNCHANGED <<ty, parser, file, held>>

\* isObjectLike without the test that the validator is a struct or a map
IsObjectLikeAnyValidator(error) == Check(type, data, error)

\* Config.isObjectLike
IsObjectLike(error) ==
    LET isStructOrObjectValidator == type.isObjectLike
        isValidDataValue == Check(type, data, error)
    IN isStructOrObjectValidator /\ isValidDataValue

\* a call of isObjectLike(0)
CallIsObjectLike ==
    /\ op' = "isObjectLike"
    /\ key' = NoKey
    /\ val' = Undef
    /\ ret' = Bool(IsObjectLike(Zero))
    /\ UNCHANGED <<ty, parser, defaultVal, data, alias, frozen, held, file>>

\* failLoad adopting whatever it decoded, valid or not
FailLoadAdoptsAnything ==
    /\ op' = "failLoad"
    /\ key' = NoKey
    /\ val' = Undef
    /\ UNCHANGED <<ty, parser, file, held>>
    /\ IF file # NoFile /\ ~Parses(file)
       THEN /\ ret' = Return(<<"Unable to parse:", "path">>)
            /\ UNCHANGED <<defaultVal, data, alias, frozen>>
       ELSE LET parsed == IF file # NoFile THEN Parse(file) ELSE defaultVal
                message == IF Fail(type, parsed) # undefined
                           THEN Fail(type, parsed) ELSE Fail(type, data)
            IN /\ ret' = Return(message)
               /\ Assign(parsed, file = NoFile)

\* Config.failLoad
FailLoad ==
    /\ op' = "failLoad"
    /\ key' = NoKey
    /\ val' = Undef
    /\ UNCHANGED <<ty, parser, file, held>>
    /\ IF file # NoFile /\ ~Parses(file)
       THEN /\ ret' = Return(<<"Unable to parse:", "path">>)
            /\ UNCHANGED <<defaultVal, data, alias, frozen>>
       ELSE LET parsed == IF file # NoFile THEN Parse(file) ELSE defaultVal
                message == IF Fail(type, parsed) # undefined
                           THEN Fail(type, parsed) ELSE Fail(type, data)
            IN /\ ret' = Return(message)
               /\ IF Check(type, parsed, message)
                  THEN Assign(parsed, file = NoFile)
                  ELSE UNCHANGED <<defaultVal, data, alias, frozen>>

\* Config.keyList after its isObjectLike guard
KeyListOf(mode) ==
    IF mode = "real" /\ type.kind = "struct"
    THEN {x \in DOMAIN type.properties :
            IF Prop(data, x) # Undef THEN TRUE ELSE type.properties[x] # NoType}
    ELSE IF mode = "default" /\ type.kind = "struct"
    THEN {x \in DOMAIN type.properties : type.properties[x] # NoType}
    ELSE IF Truthy(data) /\ IsObj(data) THEN OwnKeys(data) ELSE {}

\* Config.keyList
KeyList(mode) ==
    /\ op' = "keyList"
    /\ key' = mode
    /\ val' = Undef
    /\ ret' = IF ~IsObjectLike(undefined)
              THEN Throw(<<"Unable to list keys.">>)
              ELSE KeysResult(KeyListOf(mode))
    /\ UNCHANGED <<ty, parser, defaultVal, data, alias, frozen, held, file>>

\* (this.data ||= {}): the object the expression yields
OrEmpty(value) == IF Truthy(value) THEN value ELSE EmptyObj

\* Config.get
Get(k, mode) ==
    /\ op' = "get:" \o mode
    /\ key' = k
    /\ val' = Undef
    /\ UNCHANGED <<ty, parser, file, held>>
    /\ IF ~IsObjectLike(undefined)
       THEN /\ ret' = Throw(<<"Unable to get the key or keys.">>)
            /\ UNCHANGED <<defaultVal, data, alias, frozen>>
       ELSE LET value == Prop(OrEmpty(data), k)
            IN /\ IF Truthy(data)
                  THEN UNCHANGED <<defaultVal, data, alias, frozen>>
                  ELSE Assign(EmptyObj, FALSE)
               /\ ret' = IF mode = "default" \/ (mode = "real" /\ value = Undef)
                         THEN (IF defaultVal = Undef
                               THEN Throw(<<"TypeError">>)
                               ELSE Value(Prop(defaultVal, k)))
                         ELSE Value(value)

\* failSet writing the property before it validates the value
FailSetWritesFirst(k, value) ==
    /\ op' = "failSet"
    /\ key' = k
    /\ val' = value
    /\ UNCHANGED <<ty, parser, file, held>>
    /\ IF ~IsObjectLike(undefined)
       THEN /\ ret' = Return(<<"Unable to set the key:", k>>)
            /\ UNCHANGED <<defaultVal, data, alias, frozen>>
       ELSE LET error == Fail(type, value)
            IN /\ ret' = IF ~Check(type, value, error)
                         THEN Return(<<"Unable to set the key:", k, "Got:">> \o error)
                         ELSE Return(undefined)
               /\ IF IsObj(data) /\ ~frozen
                  THEN Mutate(WithProp(data, k, value))
                  ELSE Assign(WithProp(EmptyObj, k, value), FALSE)

\* Config.failSet
FailSet(k, value) ==
    /\ op' = "failSet"
    /\ key' = k
    /\ val' = value
    /\ UNCHANGED <<ty, parser, file, held>>
    /\ IF ~IsObjectLike(undefined)
       THEN /\ ret' = Return(<<"Unable to set the key:", k>>)
            /\ UNCHANGED <<defaultVal, data, alias, frozen>>
       ELSE LET error == Fail(type, value)
            IN IF ~Check(type, value, error)
               THEN /\ ret' = Return(<<"Unable to set the key:", k, "Got:">> \o error)
                    /\ UNCHANGED <<defaultVal, data, alias, frozen>>
               ELSE IF ~Truthy(data)
               THEN /\ Assign(WithProp(EmptyObj, k, value), FALSE)
                    /\ ret' = Return(undefined)
               ELSE IF IsObj(data) /\ ~frozen
               THEN /\ Mutate(WithProp(data, k, value))
                    /\ ret' = Return(undefined)
               ELSE /\ ret' = Throw(<<"TypeError">>)
                    /\ UNCHANGED <<defaultVal, data, alias, frozen>>

\* Config.failUnset; k = NoKey is failUnset().  The class body is strict
\* code: `delete` of a property that cannot be deleted throws, it never
\* yields false, so deleteErrorList stays empty.
FailUnset(k) ==
    /\ op' = "failUnset"
    /\ key' = k
    /\ val' = Undef
    /\ UNCHANGED <<ty, parser, file, held>>
    /\ LET error == Fail(type, data)
       IN IF ~IsObjectLike(error) \/ ~Truthy(data)
          THEN /\ ret' = Return(<<"Unable to unset the key:", k>> \o error)
               /\ UNCHANGED <<defaultVal, data, alias, frozen>>
          ELSE IF frozen /\ (IF k # NoKey THEN HasOwn(data, k)
                                           ELSE KeyListOf("current") # {})
          THEN /\ ret' = Throw(<<"TypeError">>)
               /\ UNCHANGED <<defaultVal, data, alias, frozen>>
          ELSE IF k # NoKey
          THEN /\ Mutate(WithoutProp(data, k))
               /\ ret' = Return(undefined)
          ELSE /\ Mutate(Obj([x \in OwnKeys(data) \ KeyListOf("current") |-> data.v[x]]))
               /\ ret' = Return(undefined)

\* getDataString serializing the data without validating it
DataStringAlwaysOk == TRUE

\* Config.getDataString does not throw: the data satisfies the type
DataStringOk == Check(type, data, Fail(type, data))

\* Config.getDataString
GetDataString == Stringify(data)

\* failSave writing the data whether or not it has keys
FailSaveWritesEmpty(keep) ==
    /\ op' = "failSave"
    /\ key' = IF keep THEN "keep" ELSE NoKey
    /\ val' = Undef
    /\ UNCHANGED <<ty, parser, defaultVal, data, alias, frozen, held>>
    /\ \/ /\ DataStringOk /\ GetDataString # Undef
          /\ file' = GetDataString
          /\ ret' = Return(undefined)
       \/ /\ ret' = Return(<<"Unuble to write:", "path">>)
          /\ UNCHANGED file

\* Config.failSave; the file system may refuse the removal or the write
FailSave(keep) ==
    /\ op' = "failSave"
    /\ key' = IF keep THEN "keep" ELSE NoKey
    /\ val' = Undef
    /\ UNCHANGED <<ty, parser, defaultVal, data, alias, frozen, held>>
    /\ LET error == Fail(type, data)
       IN IF IsObjectLike(error) /\ KeyListOf("current") = {}
          THEN IF file = NoFile \/ keep
               THEN /\ ret' = Return(undefined)
                    /\ UNCHANGED file
               ELSE \/ /\ file' = NoFile
                       /\ ret' = Return(undefined)
                    \/ /\ ret' = Return(<<"Unuble to remove:", "path">>)
                       /\ UNCHANGED file
          ELSE \/ /\ DataStringOk /\ GetDataString # Undef
                  /\ file' = GetDataString
                  /\ ret' = Return(undefined)
               \/ /\ ret' = Return(<<"Unuble to write:", "path">>)
                  /\ UNCHANGED file

\* getData handing out the data object itself instead of a clone
GetDataSameObject ==
    /\ op' = "getData"
    /\ key' = NoKey
    /\ val' = Undef
    /\ ret' = Value(data)
    /\ held' = IF IsObj(data) THEN "same" ELSE "clone"
    /\ UNCHANGED <<ty, parser, defaultVal, data, alias, frozen, file>>

\* Config.getData: structuredClone(this.data)
GetData ==
    /\ op' = "getData"
    /\ key' = NoKey
    /\ val' = Undef
    /\ ret' = Value(data)
    /\ held' = "clone"
    /\ UNCHANGED <<ty, parser, defaultVal, data, alias, frozen, file>>

\* the caller writes a property of the value getData returned
CallerMutates(k, value) ==
    /\ held # "none"
    /\ op' = "mutateResult"
    /\ key' = NoKey
    /\ val' = Undef
    /\ ret' = Return(undefined)
    /\ UNCHANGED <<ty, parser, file, held>>
    /\ IF held = "same" /\ IsObj(data) /\ ~frozen
       THEN Mutate(WithProp(data, k, value))
       ELSE UNCHANGED <<defaultVal, data, alias, frozen>>

\* the file is changed or removed by something else than the Config
Environment ==
    /\ file' \in ({NoFile} \cup FileTexts) \ {file}
    /\ op' = "environment"
    /\ key' = NoKey
    /\ val' = Undef
    /\ ret' = Return(undefined)
    /\ UNCHANGED <<ty, parser, defaultVal, data, alias, frozen, held>>

Next ==
    \/ SetData
    \/ CallIsObjectLike
    \/ FailLoad
    \/ \E keep \in BOOLEAN : FailSave(keep)
    \/ \E k \in Keys, value \in SetValues : FailSet(k, value)
    \/ \E k \in Keys \cup {NoKey} : FailUnset(k)
    \/ \E mode \in Modes : KeyList(mode)
    \/ \E k \in Keys, mode \in Modes : Get(k, mode)
    \/ GetData
    \/ \E k \in Keys, value \in SetValues : CallerMutates(k, value)
    \/ Environment

Spec == Init /\ [][Next]_vars

\* Only the calls that load, save, set and unset (and the file changing).
NextCalls ==
    \/ FailLoad
    \/ \E keep \in BOOLEAN : FailSave(keep)
    \/ \E k \in Keys, value \in SetValues : FailSet(k, value)
    \/ \E k \in Keys \cup {NoKey} : FailUnset(k)
    \/ Environment

SpecCalls == Init /\ [][NextCalls]_vars

\* What callers pass to fail: scalars and the plain objects over Keys.
PropValues == {Undef, Str("x"), EmptyObj} \cup Numbers
ElementValues == {Str("x"), Num(1)}
FailValues ==
    {Undef, Str("x"), Str("")} \cup {Num(n) : n \in 0..(MaxNum + 1)}
    \cup {Obj(f) : f \in UNION {[S -> PropValues] : S \in SUBSET Keys}}
    \cup {Arr(e) : e \in UNION {[1..n -> ElementValues] : n \in 0..MaxLen}}

\* a validator has been constructed and nothing was called yet
InitFail == Constructed(ValidatorIds, {}) /\ parser = "json"

\* type.fail(value)
CallFail(value) ==
    /\ op' = "fail"
    /\ key' = NoKey
    /\ val' = value
    /\ ret' = Return(Fail(type, value))
    /\ UNCHANGED <<ty, parser, defaultVal, data, alias, frozen, held, file>>

\* type.check(value, 0) and type.check(value, type.fail(value))
CallCheck(value, error) ==
    /\ op' = "check"
    /\ key' = error
    /\ val' = value
    /\ ret' = Bool(Check(type, value,
                         IF error = "0" THEN Zero ELSE Fail(type, value)))
    /\ UNCHANGED <<ty, parser, defaultVal, data, alias, frozen, held, file>>

NextFail ==
    \/ \E value \in FailValues : CallFail(value)
    \/ \E value \in FailValues, error \in {"0", "fail"} : CallCheck(value, error)

SpecFail == InitFail /\ [][NextFail]_vars

\* A Config whose parser option may differ from the parser of its type,
\* and files of the other format.
AltTexts == {[k |-> "alt", v |-> Obj([x \in {"testprop"} |-> n])] : n \in Numbers}

InitCodec == Constructed(TypeIds, FileTexts \cup AltTexts) /\ parser \in Parsers

NextCodec ==
    \/ FailLoad
    \/ \E keep \in BOOLEAN : FailSave(keep)
    \/ \E k \in Keys, value \in SetValues : FailSet(k, value)
    \/ \E k \in Keys \cup {NoKey} : FailUnset(k)

SpecCodec == InitCodec /\ [][NextCodec]_vars

\* ------------------------------------------------------------- properties
\* the data satisfies the type
DataValid == Fail(type, data) = undefined

\* the last call returned an error message
ReturnedMessage(r) == r.k = "return" /\ r.v # undefined

\* the message names the key
Names(message, k) == \E i \in DOMAIN message : message[i] = k

\* The validator that decides a value stored under key k: the struct's
\* static or dynamic property validator, or the map's valueType.
ResolvedType(k, value) ==
    IF type.kind = "struct"
    THEN GetType(type, WithProp(IF IsObj(data) THEN data ELSE EmptyObj, k, value), k)
    ELSE IF type.kind = "object" THEN type.valueType
    ELSE NoType

\* C1: after any sequence of load, set, unset and save calls on a Config of
\* a struct or map type, the data satisfies the type or is the declared
\* default.
C1_DataValidOrDefault ==
    type.isObjectLike => (DataValid \/ data = defaultVal)

\* C2: on an object-like Config, failSet(key, value) returns an error message
\* naming the key whenever the validator resolved for the key rejects value.
C2_SetRejectsBadValue ==
    [][(/\ op' = "failSet"
        /\ IsObjectLike(Zero)
        /\ ResolvedType(key', val') # NoType
        /\ Fail(ResolvedType(key', val'), val') # undefined)
       => (ReturnedMessage(ret') /\ Names(ret'.v, key'))]_vars

\* C3: on an object-like Config, whenever the validator resolved for the key
\* accepts value, failSet(key, value) returns undefined and the value is then
\* what get(key, {mode: 'current'}) returns.
C3_SetStoresGoodValue ==
    [][(/\ op' = "failSet"
        /\ IsObjectLike(Zero)
        /\ ResolvedType(key', val') # NoType
        /\ Fail(ResolvedType(key', val'), val') = undefined)
       => (ret' = Return(undefined) /\ Prop(data', key') = val')]_vars

\* C4: whenever failSet or failUnset returns an error message, the data is
\* exactly what it was before the call.
C4_FailedSetUnsetKeepsData ==
    [][(op' \in {"failSet", "failUnset"} /\ ReturnedMessage(ret'))
       => (data' = data /\ defaultVal' = defaultVal /\ alias' = alias)]_vars

\* C4 witness: a failSet has returned a message on a Config that holds keys.
C4_Witness ==
    /\ op = "failSet"
    /\ ReturnedMessage(ret)
    /\ IsObj(data) /\ OwnKeys(data) # {}

\* the value failLoad decodes: the file's, or the default when there is none
Decoded == IF file # NoFile THEN Parse(file) ELSE defaultVal

\* C5: whenever failLoad returns a message it does not throw and the data is
\* unchanged; the data is replaced only by a decoded value that satisfies
\* the type.
C5_FailedLoadKeepsData ==
    [][op' = "failLoad"
       => /\ ret'.k = "return"
          /\ ReturnedMessage(ret') => data' = data
          /\ data' # data =>
               (/\ file = NoFile \/ Parses(file)
                /\ data' = Decoded
                /\ Fail(type, Decoded) = undefined)]_vars

\* C5 witness: a failLoad of a well-formed file has returned a validation
\* message while the Config holds data of its own.
C5_Witness ==
    /\ op = "failLoad"
    /\ ReturnedMessage(ret)
    /\ file # NoFile /\ Parses(file)
    /\ ~alias /\ IsObj(data)

\* C6: if the file exists, parses and the decoded value satisfies the type,
\* failLoad returns undefined and the data becomes the decoded value,
\* whatever the data was before.
C6_LoadAdoptsValidFile ==
    [][(/\ op' = "failLoad"
        /\ file # NoFile /\ Parses(file)
        /\ Fail(type, Parse(file)) = undefined)
       => (ret' = Return(undefined) /\ data' = Parse(file))]_vars

\* C7: if no file exists, failLoad returns undefined and the data then
\* equals type.defaultVal, for every validator.
C7_LoadWithoutFileGivesDefault ==
    [][(op' = "failLoad" /\ file = NoFile)
       => (ret' = Return(undefined) /\ data' = defaultVal')]_vars

\* C8: when the data does not satisfy its struct or map type, every
\* key-oriented call is refused: get and keyList throw, failSet and
\* failUnset return a message, and the data stays unchanged.
C8_InvalidDataRefusesKeyCalls ==
    [][(/\ type.isObjectLike
        /\ ~DataValid
        /\ op' \in {"failSet", "failUnset", "keyList",
                    "get:real", "get:current", "get:default"})
       => (/\ IF op' \in {"failSet", "failUnset"}
              THEN ReturnedMessage(ret') ELSE ret'.k = "throw"
           /\ data' = data)]_vars

C10_NewStructConfigNotObjectLike ==
    [][(op = "new" /\ type.kind = "struct" /\ op' = "isObjectLike")
       => ret' = Bool(FALSE)]_vars

\* C11: no sequence of set, unset, load and save calls changes the default
\* the validator declares: type.defaultVal keeps the keys and values it had
\* at construction.
C11_DeclaredDefaultKept == defaultVal = TypeOf(ty).defaultVal

\* the default the type declares for key k
DeclaredDefault(k) == Prop(TypeOf(ty).defaultVal, k)

\* C12: on an object-like Config, get in mode current returns the stored
\* value of the key, in mode default the declared default of the key, and in
\* mode real the stored value when it is defined and the declared default
\* otherwise.
C12_GetByMode ==
    [][(op' \in {"get:current", "get:default", "get:real"} /\ IsObjectLike(Zero))
       => ret' = Value(CASE op' = "get:current" -> Prop(data, key')
                         [] op' = "get:default" -> DeclaredDefault(key')
                         [] op' = "get:real" ->
                              IF Prop(data, key') # Undef
                              THEN Prop(data, key')
                              ELSE DeclaredDefault(key'))]_vars

\* C13: for a struct-typed object-like Config, keyList in mode real is the
\* set of property names whose stored-or-default value is defined, and in
\* mode default the set of property names whose declared default is defined.
C13_KeyListByMode ==
    [][(/\ op' = "keyList"
        /\ key' \in {"real", "default"}
        /\ type.kind = "struct"
        /\ IsObjectLike(Zero))
       => ret' = KeysResult(
            {x \in DOMAIN type.properties :
                \/ DeclaredDefault(x) # Undef
                \/ key' = "real" /\ Prop(data, x) # Undef})]_vars

\* C14: failUnset(key) returns an error message when the key is not present
\* in the data.
C14_UnsetAbsentKeyFails ==
    [][(op' = "failUnset" /\ key' \in Keys /\ ~HasOwn(data, key'))
       => ReturnedMessage(ret')]_vars

\* C15: on an object-like Config, failUnset() returns undefined and leaves
\* the current key list empty; when the keys cannot be deleted it returns
\* one message that names every one of them.
C15_UnsetAllClears ==
    [][(op' = "failUnset" /\ key' = NoKey /\ IsObjectLike(Zero))
       => IF frozen
          THEN /\ data' = data
               /\ OwnKeys(data) # {} => ReturnedMessage(ret')
               /\ \A x \in OwnKeys(data) : Names(ret'.v, x)
          ELSE /\ ret' = Return(undefined)
               /\ IsObj(data') => OwnKeys(data') = {}]_vars

\* C16: failSave(keep) on an object-like Config whose current key list is
\* empty never writes the file: with keep it leaves the file as it is,
\* without keep the file is removed if it exists, and a removal that fails
\* is returned as a message, not thrown.
C16_SaveOfNoKeysNeverWrites ==
    [][(op' = "failSave" /\ IsObjectLike(Zero) /\ KeyListOf("current") = {})
       => /\ ret'.k = "return"
          /\ IF key' = "keep"
             THEN file' = file /\ ret' = Return(undefined)
             ELSE \/ file' = NoFile /\ ret' = Return(undefined)
                  \/ file # NoFile /\ file' = file /\ ReturnedMessage(ret')]_vars

\* C16 witness: failSave() on an object-like Config without keys could not
\* remove the existing file and returned the message.
C16_Witness ==
    /\ op = "failSave" /\ key = NoKey
    /\ IsObjectLike(Zero) /\ KeyListOf("current") = {}
    /\ file # NoFile
    /\ ret = Return(<<"Unuble to remove:", "path">>)

\* C17: failSave writes the file only when the data satisfies the type, and
\* then the text written is the serialization of the data; when the data
\* fails validation nothing is written and a message is returned, not
\* thrown.
C17_SaveWritesOnlyValidData ==
    [][op' = "failSave"
       => /\ (file' # file /\ file' # NoFile)
               => (DataValid /\ file' = Stringify(data))
          /\ ~DataValid => (file' = file /\ ReturnedMessage(ret'))]_vars

\* C17 witness: failSave has written the serialization of valid data that
\* has keys.
C17_Witness ==
    /\ op = "failSave"
    /\ ret = Return(undefined)
    /\ DataValid /\ IsObj(data) /\ OwnKeys(data) # {}
    /\ file = Stringify(data)

\* C18: mutating the value getData() returned never changes the data of the
\* Config (nor the default it may share), so later getData() and get() calls
\* return what they would have returned without the mutation.
C18_GetDataResultIsDetached ==
    [][op' = "mutateResult" => (data' = data /\ defaultVal' = defaultVal)]_vars

\* C18 witness: the caller has written a property of the object getData()
\* returned for a Config whose data is an object.
C18_Witness ==
    /\ op = "mutateResult"
    /\ held = "clone"
    /\ IsObj(data)

\* the message has the entry of the given kind for key k
Entry(message, kind, k) ==
    \E i \in 1..(Len(message) - 1) : message[i] = kind /\ message[i + 1] = k

\* the number of entries of the given kind in the message
Entries(message, kind) ==
    Cardinality({i \in DOMAIN message : message[i] = kind})

\* C19: struct.fail(v) returns a message whenever a key declared in
\* properties is absent from the own keys of v, and the message has a
\* 'Missing keys' entry.
C19_MissingKeysReported ==
    (/\ op = "fail"
     /\ type.kind = "struct"
     /\ IsObj(val)
     /\ DOMAIN type.properties \ OwnKeys(val) # {})
    => (ReturnedMessage(ret) /\ Names(ret.v, "Missing keys"))

\* C20: struct.fail(v) on a plain object v reports every offending present
\* key in one message: one 'Unexpected key' entry for each present key
\* without a resolvable validator, one 'Bad value' entry for each present
\* key whose value its resolved validator rejects, and undefined only when
\* there is no such key.
C20_EveryBadKeyReported ==
    (op = "fail" /\ type.kind = "struct" /\ IsObj(val))
    => LET unexpected == {k \in OwnKeys(val) : GetType(type, val, k) = NoType}
           bad == {k \in OwnKeys(val) \ unexpected :
                     Fail(GetType(type, val, k), val.v[k]) # undefined}
       IN /\ ret.k = "return"
          /\ (ret.v = undefined) <=> (unexpected \cup bad = {})
          /\ \A k \in unexpected : Entry(ret.v, "Unexpected key", k)
          /\ \A k \in bad : Entry(ret.v, "Bad value for the key", k)
          /\ Entries(ret.v, "Unexpected key") = Cardinality(unexpected)
          /\ Entries(ret.v, "Bad value for the key") = Cardinality(bad)

\* C20 witness: fail was given an object with a key of a bad value and an
\* undeclared key, and reported both.
C20_Witness ==
    /\ op = "fail"
    /\ ty = 1
    /\ val = Obj([x \in Keys |-> Str("x")])
    /\ Entry(ret.v, "Bad value for the key", "testprop")
    /\ Entry(ret.v, "Unexpected key", "other")

\* C21: array(elementType).fail(v) accepts v iff v is a sequence and every
\* element is accepted; when it rejects a sequence, every offending element
\* is listed, each under its own index in v.
C21_ArrayReportsOwnIndex ==
    (op = "fail" /\ type.kind = "array")
    => IF val.k # "arr"
       THEN ReturnedMessage(ret) \/ (val = Undef /\ type.optional)
       ELSE LET offending == {i \in 1..Len(val.v) :
                                 Fail(type.elementType, val.v[i]) # undefined}
            IN /\ (ret.v = undefined) <=> (offending = {})
               /\ Entries(ret.v, "Element") = Cardinality(offending)
               /\ \A i \in offending : Entry(ret.v, "Element", ToString(i - 1))

\* C22: every struct validator that exists has a derived default (each
\* property key mapped to that property validator's defaultVal) that its own
\* fail accepts; a struct whose derived default does not satisfy it is never
\* constructed.
C22_StructDefaultSatisfiesStruct ==
    (op = "fail" /\ type.kind = "struct")
    => Fail(type, TypeOf(ty).defaultVal) = undefined

\* C23: for a key present in the validated object the struct resolves the
\* dynamic validator when override is true and a dynamic validator is given
\* (else the static one), and when override is false the static validator
\* if it exists and otherwise the dynamic one; the key is reported as
\* unexpected iff nothing resolves, and as a bad value iff the resolved
\* validator rejects its value.
C23_ResolutionOrder ==
    (op = "fail" /\ type.kind = "struct" /\ IsObj(val))
    => \A k \in OwnKeys(val) :
         LET dynamic == type.dynamicProperties.validator
             static == IF k \in DOMAIN type.properties
                       THEN type.properties[k] ELSE NoType
             first == IF type.dynamicProperties.override THEN dynamic ELSE static
             second == IF type.dynamicProperties.override THEN static ELSE dynamic
             resolved == IF first # NoType THEN first ELSE second
         IN /\ Entry(ret.v, "Unexpected key", k) <=> (resolved = NoType)
            /\ resolved # NoType =>
                 (Entry(ret.v, "Bad value for the key", k)
                    <=> (Fail(resolved, val.v[k]) # undefined))

\* C23 witness: with override, the dynamic string validator decided a key
\* whose static validator is a number, and accepted a string.
C23_Witness ==
    /\ op = "fail"
    /\ type.kind = "struct" /\ type.dynamicProperties.override
    /\ type.dynamicProperties.validator.kind = "string"
    /\ val = Obj([x \in {"testprop"} |-> Str("x")])
    /\ ret = Return(undefined)

\* C24: for every validator and every value v, check(v, 0) is true exactly
\* when fail(v) is undefined, and check(v, fail(v)) equals
\* (fail(v) === undefined).
C24_CheckAgreesWithFail ==
    op = "check" => ret = Bool(Fail(type, val) = undefined)

\* C24 witness: check(v, 0) has been answered with true for an object a
\* struct accepts.
C24_Witness ==
    /\ op = "check" /\ key = "0"
    /\ type.kind = "struct"
    /\ val = Obj([x \in {"testprop"} |-> Num(1)])
    /\ ret = Bool(TRUE)

\* C25: number({min, max}) without a pattern accepts a value iff it is a
\* number v with min <= v <= max, both bounds inclusive and each unbounded
\* when left out; non-numbers are rejected.
C25_NumberRangeInclusive ==
    (/\ op = "fail"
     /\ type.kind = "number"
     /\ type.pattern.kind = "none"
     /\ ~(val = Undef /\ type.optional))
    => ((ret.v = undefined)
          <=> (/\ val.k = "num"
               /\ type.min.k = "-inf" \/ type.min.v <= val.v
               /\ type.max.k = "inf" \/ val.v <= type.max.v))

\* C25 witness: number({max}) has accepted the value max itself.
C25_Witness ==
    /\ op = "fail"
    /\ type.kind = "number" /\ type.pattern.kind = "none"
    /\ type.min.k = "-inf" /\ type.max.k = "num"
    /\ val = type.max
    /\ ret = Return(undefined)

\* The data of a second Config constructed on the same validator and never
\* called: its constructor stored the object type.defaultVal itself, so
\* what its getData and get return is what that object holds now.
OtherData == defaultVal

\* C26: two Config instances built on the same validator never affect each
\* other: set, unset and load calls on one leave the data of the other
\* unchanged.
C26_InstancesIndependent ==
    [][op' \in {"failSet", "failUnset", "failLoad"}
       => OtherData' = OtherData]_vars

\* C27: save and load use the same codec: the text failSave writes is of
\* the format of the Config's own parser, the one failLoad decodes the file
\* with, also when the Config's parser differs from the parser of its type.
C27_SaveUsesConfigParser ==
    [][(op' = "failSave" /\ file' # file /\ file' # NoFile)
       => ParsesWith(parser, file')]_vars

\* C28: save/load round trip: on an object-like Config whose data the
\* parser encodes without loss, after failSave() returned undefined a
\* following failLoad() returns undefined and leaves the data equal to the
\* data before the save (up to properties whose value is undefined), also
\* when the data had no keys and the file was deleted.
C28_SaveLoadRoundTrip ==
    [][(/\ op = "failSave" /\ key = NoKey
        /\ ret = Return(undefined)
        /\ IsObjectLike(Zero)
        /\ Jsonify(data) = data
        /\ op' = "failLoad")
       => (ret' = Return(undefined) /\ Jsonify(data') = data)]_vars

\* C29: get and keyList are read-only: in any mode, whether they return or
\* throw, they leave the data of the Config unchanged, also when the data
\* is undefined.
C29_GetAndKeyListReadOnly ==
    [][op' \in {"get:real", "get:current", "get:default", "keyList"}
       => data' = data]_vars

\* C30: with a callback pattern, string and number accept a value of the
\* right type (and range) whenever the callback returns undefined for it,
\* and reject it only when the callback returns an error fragment.
C30_CallbackPatternDecides ==
    (/\ op = "fail"
     /\ type.kind \in {"string", "number"}
     /\ type.pattern.kind = "callback"
     /\ IF type.kind = "string" THEN val.k = "str"
        ELSE val.k = "num" /\ Le(type.min, val) /\ Le(val, type.max))
    => ((ret.v = undefined) <=> (val \in type.pattern.passes))
====
